---- MODULE Spec2Model ----
(***************************************************************************)
(* front-to-back-router: the route registry (Router) and the URI-template*)
(* binder (UriParameterBinder).                                            *)
(*                                                                         *)
(* RouterSpec : the Router as a state machine of register / prefix calls.  *)
(* BinderSpec : one UriParameterBinder and the bind / canBindObject calls  *)
(*              made on it.                                                *)
(* ApplySpec  : one ApplyConfiguration middleware and the apply calls made *)
(*              on a route of the caller's.                                *)
(***************************************************************************)
EXTENDS Naturals, Sequences, FiniteSets, TLC

VARIABLES
    \* ---- Router ----
    config,        \* Router.config: [immutable, duplicates]
    routes,        \* Router.routes: name -> Route
    signatures,    \* Router.signatures: "METHOD:url" -> name
    routePrefix,   \* Router.routePrefix: string | null
    frames,        \* the prefix(...) calls whose callback is executing, outermost first
    call,          \* the last Router call: its arguments and how it ended
    \* ---- UriParameterBinder ----
    uri,           \* UriParameterBinder.uri (the template)
    parameters,    \* UriParameterBinder.parameters
    configuration, \* UriParameterBinder.configuration
    values,        \* the caller's value handed to bind / canBindObject (an object is consumed)
    bcall,         \* the last binder call: its arguments and its outcome
    \* ---- ApplyConfiguration ----
    registrarConfiguration, \* ApplyConfiguration.configuration: [prefix, uris, extra]
    heap,          \* the objects of the caller's route and of the routes apply returns
    acall          \* the last apply call: the route given and the route returned

routerVars == <<config, routes, signatures, routePrefix, frames, call>>
binderVars == <<uri, parameters, configuration, values, bcall>>
applyVars  == <<registrarConfiguration, heap, acall>>
vars == <<config, routes, signatures, routePrefix, frames, call,
          uri, parameters, configuration, values, bcall,
          registrarConfiguration, heap, acall>>

Null == "<null>"

(***************************************************************************)
(* Bounds                                                                  *)
(***************************************************************************)
NumNames == 2
MaxDepth == 2

AllNames == <<"r1", "r2", "r3", "r4">>
Names    == {AllNames[i] : i \in 1..NumNames}
Methods  == {"GET", "POST"}
Urls     == {"/a"}
Prefixes == {"/p"}
QueryUrls == {"/a"}

(***************************************************************************)
(* Route                                                                   *)
(***************************************************************************)
Route(name, method, url) == [name |-> name, method |-> method, url |-> url]

\* Route.applyPrefix: the route's url becomes the prefix followed by the url.
applyPrefix(rt, prefix) == [rt EXCEPT !.url = prefix \o @]

(***************************************************************************)
(* Router                                                                  *)
(***************************************************************************)
routeSignature(method, url) == method \o ":" \o url

\* the route as registerRoute sees it after its prefix step
prefixed(rt, prefix) ==
    IF prefix # Null THEN applyPrefix(rt, prefix) ELSE rt

\* mutant: the signature is computed before the prefix is applied
signatureOf_beforePrefix(rt, prefix) ==
    routeSignature(rt.method, rt.url)

\* the signature registerRoute compares and stores
signatureOf(rt, prefix) ==
    routeSignature(prefixed(rt, prefix).method, prefixed(rt, prefix).url)

\* mutant: only a re-registration that changes nothing is rejected
immutableViolation_sameRouteOnly(cfg, rts, rt) ==
    cfg.immutable /\ rt.name \in DOMAIN rts /\ rts[rt.name] = rt

\* this.config.immutable && this.routes.get(route.name) !== undefined
immutableViolation(cfg, rts, rt) ==
    cfg.immutable /\ rt.name \in DOMAIN rts

\* mutant: the duplicates flag is read the wrong way round
duplicateViolation_flagInverted(cfg, sigs, signature) ==
    cfg.duplicates = TRUE /\ signature \in DOMAIN sigs

\* this.config.duplicates === false && oldRoute !== undefined
duplicateViolation(cfg, sigs, signature) ==
    cfg.duplicates = FALSE /\ signature \in DOMAIN sigs

\* Map.set
MapSet(map, key, value) ==
    [k \in DOMAIN map \cup {key} |-> IF k = key THEN value ELSE map[k]]

\* Router.route(name)
route(name) == IF name \in DOMAIN routes THEN routes[name] ELSE Null

Top(s) == IF Len(s) = 0 THEN Null ELSE s[Len(s)]

CallRecord(op, rt, result) ==
    [op |-> op, name |-> rt.name, method |-> rt.method, url |-> rt.url,
     result |-> result]

NoRoute == Route(Null, Null, Null)

\* mutant: the signature is written before the error is thrown
Throw_afterInsert(rt) ==
    /\ call' = CallRecord("register", rt, "RegistrationError")
    /\ \E left \in 0..Len(frames) : frames' = SubSeq(frames, 1, Len(frames) - left)
    /\ signatures' = MapSet(signatures, signatureOf(rt, routePrefix), rt.name)
    /\ UNCHANGED <<config, routes, routePrefix>>

\* A RegistrationError thrown by registerRoute: nothing of the Router changes.
\* Inside prefix callbacks the error is either caught by the callback or leaves
\* some of the executing prefix(...) calls, whose last statement is then skipped.
Throw(rt) ==
    /\ call' = CallRecord("register", rt, "RegistrationError")
    /\ \E left \in 0..Len(frames) : frames' = SubSeq(frames, 1, Len(frames) - left)
    /\ UNCHANGED <<config, routes, signatures, routePrefix>>

registerRoute(rt) ==
    IF immutableViolation(config, routes, rt)
    THEN Throw(rt)
    ELSE LET r         == prefixed(rt, routePrefix)
             signature == signatureOf(rt, routePrefix)
         IN  IF duplicateViolation(config, signatures, signature)
             THEN Throw(rt)
             ELSE /\ signatures' = MapSet(signatures, signature, r.name)
                  /\ routes' = MapSet(routes, r.name, r)
                  /\ call' = CallRecord("register", rt, "ok")
                  /\ UNCHANGED <<config, routePrefix, frames>>

\* register(name, method, url), and get / post / put / patch / delete through it
register(name, method, url) ==
    /\ registerRoute(Route(name, method, url))
    /\ UNCHANGED <<binderVars, applyVars>>

\* prefix(prefix, callback), up to the invocation of the callback
prefixEnter(prefix) ==
    /\ Len(frames) < MaxDepth
    /\ routePrefix' = prefix
    /\ frames' = Append(frames, prefix)
    /\ call' = CallRecord("prefix", NoRoute, "ok")
    /\ UNCHANGED <<config, routes, signatures>>
    /\ UNCHANGED <<binderVars, applyVars>>

\* the callback of the innermost prefix(...) returns; prefix clears routePrefix
prefixReturn ==
    /\ Len(frames) > 0
    /\ routePrefix' = Null
    /\ frames' = SubSeq(frames, 1, Len(frames) - 1)
    /\ call' = CallRecord("prefixReturn", NoRoute, "ok")
    /\ UNCHANGED <<config, routes, signatures>>
    /\ UNCHANGED <<binderVars, applyVars>>

\* hasRouteWithUrl(url, ...methods) with one method, or with none (Null): then
\* every known method is tried
hasRouteWithUrl(url, method) ==
    LET methods  == IF method = Null THEN Methods ELSE {method}
        hasRoute == \E m \in methods : routeSignature(m, url) \in DOMAIN signatures
    IN  /\ call' = CallRecord("hasRouteWithUrl", Route(Null, method, url),
                              IF hasRoute THEN "true" ELSE "false")
        /\ UNCHANGED <<config, routes, signatures, routePrefix, frames>>
        /\ UNCHANGED <<binderVars, applyVars>>

EmptyMap == [k \in {} |-> Null]

BinderIdle ==
    /\ uri = <<>>
    /\ parameters = <<>>
    /\ configuration = Null
    /\ values = Null
    /\ bcall = Null

ApplyIdle ==
    /\ registrarConfiguration = Null
    /\ heap = Null
    /\ acall = Null

RouterInit ==
    /\ config \in [immutable : BOOLEAN, duplicates : BOOLEAN]
    /\ routes = EmptyMap
    /\ signatures = EmptyMap
    /\ routePrefix = Null
    /\ frames = <<>>
    /\ call = CallRecord("new", NoRoute, "ok")
    /\ BinderIdle
    /\ ApplyIdle

RouterNext ==
    \/ \E name \in Names, method \in Methods, url \in Urls : register(name, method, url)
    \/ \E prefix \in Prefixes : prefixEnter(prefix)
    \/ prefixReturn
    \/ \E url \in QueryUrls, method \in Methods \cup {Null} : hasRouteWithUrl(url, method)

RouterSpec == RouterInit /\ [][RouterNext]_vars

(***************************************************************************)
(* Strings are sequences of one-character strings.                         *)
(***************************************************************************)
\* String.prototype.indexOf(p) + 1, 0 when p does not occur
IndexOf(s, p) ==
    LET hits == {i \in 1..Len(s) : i + Len(p) - 1 <= Len(s)
                                   /\ SubSeq(s, i, i + Len(p) - 1) = p}
    IN  IF hits = {} THEN 0 ELSE CHOOSE i \in hits : \A j \in hits : i <= j

Contains(s, p) == IndexOf(s, p) # 0

\* String.prototype.replace(p, r) with a string pattern: the first occurrence only
replace(s, p, r) ==
    LET i == IndexOf(s, p)
    IN  IF i = 0 THEN s
        ELSE SubSeq(s, 1, i - 1) \o r \o SubSeq(s, i + Len(p), Len(s))

IsWhitespace(c) == c = " "

RECURSIVE trimStart(_)
trimStart(s) ==
    IF Len(s) > 0 /\ IsWhitespace(s[1]) THEN trimStart(Tail(s)) ELSE s

RECURSIVE trimEnd(_)
trimEnd(s) ==
    IF Len(s) > 0 /\ IsWhitespace(s[Len(s)])
    THEN trimEnd(SubSeq(s, 1, Len(s) - 1)) ELSE s

\* String.prototype.trim
trim(s) == trimEnd(trimStart(s))

\* the characters of the model that encodeURIComponent escapes
EncodeChar(c) ==
    CASE c = " " -> <<"%", "2", "0">>
      [] c = "/" -> <<"%", "2", "F">>
      [] c = "?" -> <<"%", "3", "F">>
      [] c = "&" -> <<"%", "2", "6">>
      [] c = "=" -> <<"%", "3", "D">>
      [] c = "{" -> <<"%", "7", "B">>
      [] c = "}" -> <<"%", "7", "D">>
      [] OTHER   -> <<c>>

RECURSIVE encodeURIComponent(_)
encodeURIComponent(s) ==
    IF s = <<>> THEN <<>> ELSE EncodeChar(Head(s)) \o encodeURIComponent(Tail(s))

(***************************************************************************)
(* JavaScript values: t is typeof-like, s the value's String(...)          *)
(***************************************************************************)
Undefined == [t |-> "undefined", s |-> <<"u","n","d","e","f","i","n","e","d">>]
JSNull    == [t |-> "null", s |-> <<"n","u","l","l">>]
Str(s)    == [t |-> "string", s |-> s]
Num(s)    == [t |-> "number", s |-> s]

\* String(value), as encodeURIComponent applies it to its argument
StringOf(value) == value.s

(***************************************************************************)
(* UriParameterCollection                                                  *)
(***************************************************************************)
UriParameter(name, required, placeholder) ==
    [name |-> name, required |-> required, placeholder |-> placeholder]

\* parameters[0] of an empty collection: undefined
NoParameter == UriParameter(<<>>, FALSE, <<>>)

\* the parameters of the placeholders {name} and {name?} of s from position i on
RECURSIVE parseFrom(_, _)
parseFrom(s, i) ==
    IF i > Len(s) THEN <<>>
    ELSE IF s[i] # "{" THEN parseFrom(s, i + 1)
    ELSE LET close    == CHOOSE j \in i..Len(s) :
                             s[j] = "}" /\ \A k \in i..(j - 1) : s[k] # "}"
             optional == s[close - 1] = "?"
             name     == SubSeq(s, i + 1, IF optional THEN close - 2 ELSE close - 1)
         IN  <<UriParameter(name, ~optional, SubSeq(s, i, close))>>
                 \o parseFrom(s, close + 1)

\* UriParameterCollection.parseFromUri
parseFromUri(s) == parseFrom(s, 1)

\* UriParameterCollection.getRequired
getRequired(params) == SelectSeq(params, LAMBDA p : p.required)

(***************************************************************************)
(* Errors and outcomes                                                     *)
(***************************************************************************)
Error(class, message, parameter, cause) ==
    [class |-> class, message |-> message, parameter |-> parameter, cause |-> cause]

\* new UriParameterBindingError(msg [, cause]); parameter: the name the message gives
UriParameterBindingError(message, parameter, cause) ==
    Error("UriParameterBindingError", message, parameter, cause)

\* an error raised by the conversion function itself
ForeignError(class) == Error(class, "thrown by typeConversionFunction", Null, Null)

\* reading a property of undefined
TypeError == Error("TypeError", "cannot read properties of undefined", Null, Null)

NoError == Error(Null, Null, Null, Null)

Returned(s) == [kind |-> "url", url |-> s, flag |-> FALSE, error |-> NoError]
ReturnedBool(b) == [kind |-> "bool", url |-> <<>>, flag |-> b, error |-> NoError]
Thrown(e) == [kind |-> "throw", url |-> <<>>, flag |-> FALSE, error |-> e]

(***************************************************************************)
(* UriParameterBinderConfiguration                                         *)
(***************************************************************************)
ConversionFunctions ==
    {"stringify", "alwaysNull", "throwsTypeConversionError", "throwsRangeError"}

\* what a typeConversionFunction does with a value that is not a string:
\* a string, null, or an error of its own
applyConversion(fn, value) ==
    CASE fn = "stringify" ->
            IF value.t = "number"
            THEN [kind |-> "string", s |-> value.s, class |-> Null]
            ELSE [kind |-> "null", s |-> <<>>, class |-> Null]
      [] fn = "alwaysNull" -> [kind |-> "null", s |-> <<>>, class |-> Null]
      [] fn = "throwsTypeConversionError" ->
            [kind |-> "throw", s |-> <<>>, class |-> "TypeConversionError"]
      [] OTHER -> [kind |-> "throw", s |-> <<>>, class |-> "RangeError"]

Configuration(bindGet, fn) ==
    [bindGetParameters |-> bindGet, typeConversionFunction |-> fn]

\* the config argument of bind / canBindObject: null, or an object of options
NoOverride == [given |-> FALSE, bindGetParameters |-> FALSE, typeConversionFunction |-> Null]
Override(bindGet, fn) ==
    [given |-> TRUE, bindGetParameters |-> bindGet, typeConversionFunction |-> fn]

(***************************************************************************)
(* UriParameterBinder                                                      *)
(***************************************************************************)
\* mutant: no trailing slash is removed
removeTrailingSlashes_none(s) == s

RECURSIVE stripSlashes(_)
stripSlashes(s) ==
    IF Len(s) > 0 /\ s[Len(s)] = "/"
    THEN stripSlashes(SubSeq(s, 1, Len(s) - 1)) ELSE s

removeTrailingSlashes(s) == stripSlashes(s)

\* convertToString: the conversion function is the one of this.configuration
convertToString(value) ==
    IF value.t # "string"
    THEN LET c == applyConversion(configuration.typeConversionFunction, value)
         IN  CASE c.kind = "throw" -> Thrown(ForeignError(c.class))
               [] c.kind = "null"  ->
                    Thrown(UriParameterBindingError("String conversion failed", Null, Null))
               [] OTHER -> Returned(trim(c.s))
    ELSE Returned(trim(value.s))

\* bindParameter with a UriParameter, or with undefined (NoParameter), every
\* property read of which is a TypeError
bindParameter(u, parameter, value, cfg) ==
    IF parameter = NoParameter
    THEN IF value = Undefined THEN Thrown(TypeError)
         ELSE LET c == convertToString(value)
              IN  IF c.kind = "throw" /\ c.error.class # "TypeConversionError"
                  THEN c
                  ELSE Thrown(TypeError)
    ELSE IF value = Undefined /\ parameter.required
    THEN Thrown(UriParameterBindingError("missing value", parameter.name, Null))
    ELSE LET original == IF value = Undefined THEN Str(<<>>) ELSE value
             c        == convertToString(original)
         IN  IF c.kind = "throw"
             THEN IF c.error.class = "TypeConversionError"
                  THEN Thrown(UriParameterBindingError("unable to convert",
                                  parameter.name, "TypeConversionError"))
                  ELSE c
             ELSE IF parameter.required /\ Len(c.url) = 0
             THEN IF original.t = "string"
                  THEN Thrown(UriParameterBindingError("empty string",
                                  parameter.name, Null))
                  ELSE Thrown(UriParameterBindingError("conversion results in an empty string",
                                  parameter.name, Null))
             ELSE Returned(removeTrailingSlashes(
                      replace(u, parameter.placeholder, encodeURIComponent(c.url))))

\* ---- objects: the entries [k, v] of a plain object, in enumeration order ----
HasKey(object, key) == \E i \in 1..Len(object) : object[i].k = key

\* object[key]
Get(object, key) ==
    IF HasKey(object, key)
    THEN object[CHOOSE i \in 1..Len(object) : object[i].k = key].v
    ELSE Undefined

\* mutant: the key is kept
Delete_nothing(object, key) == object

\* delete object[key]
Delete(object, key) == SelectSeq(object, LAMBDA e : e.k # key)

\* bindGetParameters
RECURSIVE bindGetParameters(_, _, _)
bindGetParameters(u, object, cfg) ==
    IF object = <<>> THEN u
    ELSE bindGetParameters(
             (IF u = <<>> THEN u \o <<"?">> ELSE u \o <<"&">>)
                 \o encodeURIComponent(Head(object).k) \o <<"=">>
                 \o encodeURIComponent(StringOf(Head(object).v)),
             Tail(object), cfg)

\* bindObject from the i-th parameter on: the outcome and the object as it is left
RECURSIVE bindObjectFrom(_, _, _, _)
bindObjectFrom(i, u, object, cfg) ==
    IF i > Len(parameters)
    THEN [result |-> Returned(IF cfg.bindGetParameters
                              THEN bindGetParameters(u, object, cfg) ELSE u),
          object |-> object]
    ELSE LET b == bindParameter(u, parameters[i], Get(object, parameters[i].name), cfg)
         IN  IF b.kind = "throw"
             THEN [result |-> b, object |-> object]
             ELSE bindObjectFrom(i + 1, b.url, Delete(object, parameters[i].name), cfg)

bindObject(u, object, cfg) == bindObjectFrom(1, u, object, cfg)

\* mutant: the index is one too far
At_offByOne(array, i) == IF i + 1 <= Len(array) THEN array[i + 1] ELSE Undefined

\* array[index]
At(array, i) == IF i <= Len(array) THEN array[i] ELSE Undefined

RECURSIVE bindArrayFrom(_, _, _, _)
bindArrayFrom(i, u, array, cfg) ==
    IF i > Len(parameters) THEN Returned(u)
    ELSE LET b == bindParameter(u, parameters[i], At(array, i), cfg)
         IN  IF b.kind = "throw" THEN b ELSE bindArrayFrom(i + 1, b.url, array, cfg)

bindArray(u, array, cfg) == bindArrayFrom(1, u, array, cfg)

\* mutant: one required parameter is already one too many
bindValue_atLeastOne(u, value, cfg) ==
    IF Len(getRequired(parameters)) >= 1
    THEN Thrown(UriParameterBindingError("plain value", Null, Null))
    ELSE bindParameter(u, IF Len(parameters) > 0 THEN parameters[1] ELSE NoParameter, value, cfg)

bindValue(u, value, cfg) ==
    IF Len(getRequired(parameters)) > 1
    THEN Thrown(UriParameterBindingError("plain value", Null, Null))
    ELSE bindParameter(u, IF Len(parameters) > 0 THEN parameters[1] ELSE NoParameter, value, cfg)

\* values as bind dispatches on them
Array(items)    == [shape |-> "array", items |-> items, value |-> Undefined]
Object(entries) == [shape |-> "object", items |-> entries, value |-> Undefined]
Scalar(value)   == [shape |-> "scalar", items |-> <<>>, value |-> value]

\* config !== null ? new Configuration(config) : this.configuration
effective(override) ==
    IF override.given
    THEN Configuration(override.bindGetParameters, override.typeConversionFunction)
    ELSE configuration

\* bind: the outcome and, for an object, the object as it is left
bindOutcome(vals, override) ==
    LET cfg == effective(override)
    IN  IF Len(parameters) = 0 /\ cfg.bindGetParameters = FALSE
        THEN [result |-> Returned(uri), object |-> vals.items]
        ELSE CASE vals.shape = "array" ->
                    [result |-> bindArray(uri, vals.items, cfg), object |-> vals.items]
               [] vals.shape = "object" -> bindObject(uri, vals.items, cfg)
               [] OTHER ->
                    [result |-> bindValue(uri, vals.value, cfg), object |-> vals.items]

\* mutant: every error is taken for a binding error
canBindObjectOutcome_swallowsAll(object, override) ==
    LET b == bindObject(uri, object, effective(override))
    IN  [result |-> IF b.result.kind = "throw" THEN ReturnedBool(FALSE) ELSE ReturnedBool(TRUE),
         object |-> b.object]

canBindObjectOutcome(object, override) ==
    LET b == bindObject(uri, object, effective(override))
    IN  [result |-> IF b.result.kind = "throw"
                    THEN IF b.result.error.class = "UriParameterBindingError"
                         THEN ReturnedBool(FALSE)
                         ELSE b.result
                    ELSE ReturnedBool(TRUE),
         object |-> b.object]

BinderCall(op, vals, override, result) ==
    [op |-> op, values |-> vals, override |-> override, result |-> result]

\* bind(values, config) on the caller's value
bind(override) ==
    /\ bcall' = BinderCall("bind", values, override, bindOutcome(values, override).result)
    /\ values' = [values EXCEPT !.items = bindOutcome(values, override).object]
    /\ UNCHANGED <<uri, parameters, configuration>>
    /\ UNCHANGED <<routerVars, applyVars>>

\* canBindObject(object, config) on the caller's object
canBindObject(override) ==
    /\ values.shape = "object"
    /\ bcall' = BinderCall("canBindObject", values, override,
                           canBindObjectOutcome(values.items, override).result)
    /\ values' = [values EXCEPT !.items = canBindObjectOutcome(values.items, override).object]
    /\ UNCHANGED <<uri, parameters, configuration>>
    /\ UNCHANGED <<routerVars, applyVars>>

(***************************************************************************)
(* The binders and the values of the model                                 *)
(***************************************************************************)
MaxItems == 2
MaxKeys  == 2

id   == <<"i", "d">>
slug == <<"s", "l", "u", "g">>
q    == <<"q">>
page == <<"p", "a", "g", "e">>

\* "/users/{id}/posts/{slug?}"
TplUsers ==
    <<"/","u","s","e","r","s","/","{","i","d","}","/","p","o","s","t","s","/",
      "{","s","l","u","g","?","}">>
\* "/search"
TplSearch == <<"/","s","e","a","r","c","h">>
\* "/{id}/{q}"
TplPair == <<"/","{","i","d","}","/","{","q","}">>
\* "/{q?}/{slug?}/"
TplOptional == <<"/","{","q","?","}","/","{","s","l","u","g","?","}","/">>
\* "/{slug?}/{id}"
TplOptionalFirst == <<"/","{","s","l","u","g","?","}","/","{","i","d","}">>

Templates == {TplUsers, TplSearch, TplPair, TplOptional, TplOptionalFirst}

Configurations ==
    {Configuration(b, fn) : b \in BOOLEAN, fn \in ConversionFunctions}

Overrides ==
    {NoOverride, Override(TRUE, "stringify"), Override(FALSE, "alwaysNull")}

Atoms == {Undefined, JSNull, Str(<<"a", " ", "b">>), Str(<<" ">>), Num(<<"4", "2">>)}

Entry(k, v) == [k |-> k, v |-> v]

Entries ==
    { Entry(id, Num(<<"4", "2">>)), Entry(id, Undefined), Entry(id, Str(<<" ">>)),
      Entry(id, JSNull), Entry(slug, Str(<<"a", " ", "b">>)),
      Entry(q, Str(<<"a", " ", "b">>)), Entry(page, Num(<<"2">>)) }

SeqsUpTo(S, n) == UNION {[1..m -> S] : m \in 0..n}

Objects ==
    {o \in SeqsUpTo(Entries, MaxKeys) :
        \A i, j \in 1..Len(o) : i # j => o[i].k # o[j].k}

Values ==
    {Array(a) : a \in SeqsUpTo(Atoms, MaxItems)}
        \cup {Object(o) : o \in Objects}
        \cup {Scalar(v) : v \in Atoms}

RouterIdle ==
    /\ config = Null
    /\ routes = EmptyMap
    /\ signatures = EmptyMap
    /\ routePrefix = Null
    /\ frames = <<>>
    /\ call = Null

\* new UriParameterBinder(uri, config), and a value of the caller's
BinderInit ==
    /\ uri \in Templates
    /\ parameters = parseFromUri(uri)
    /\ configuration \in Configurations
    /\ values \in Values
    /\ bcall = BinderCall("new", values, NoOverride, Returned(uri))
    /\ RouterIdle
    /\ ApplyIdle

BinderNext ==
    \/ \E override \in Overrides : bind(override)
    \/ \E override \in Overrides : canBindObject(override)

BinderSpec == BinderInit /\ [][BinderNext]_vars

(***************************************************************************)
(* ApplyConfiguration.  Objects have identity: heap maps a reference to    *)
(* the object it names, and a Route or Uri holds references to the objects *)
(* it was constructed with.                                                *)
(***************************************************************************)
\* a plain object used as a mapping: a function from its keys to their values
Keys     == {"auth", "guard"}
Vals     == {"x", "y"}
Mappings == UNION {[D -> Vals] : D \in SUBSET Keys}

\* the contents of target after Object.assign(target, source)
ObjectAssign(target, source) ==
    [k \in DOMAIN target \cup DOMAIN source |->
        IF k \in DOMAIN source THEN source[k] ELSE target[k]]

\* new Route(name, method, uri, extra) and new Uri(uri, configuration): the
\* objects given are held by reference
RouteObject(name, method, uriRef, extraRef) ==
    [name |-> name, method |-> method, uri |-> uriRef, extra |-> extraRef]

UriObject(template, configurationRef) ==
    [template |-> template, configuration |-> configurationRef]

NoObject == Null

\* updateUri(route) on heap h: the heap as it is left and the reference returned
updateUri(h, r) ==
    IF Len(registrarConfiguration.prefix) > 0
    THEN LET uriString == registrarConfiguration.prefix \o h[h[r].uri].template
             uriConfig == h[h[r].uri].configuration
             assigned  == [h EXCEPT ![uriConfig] =
                              ObjectAssign(h[uriConfig], registrarConfiguration.uris)]
         IN  [heap |-> [assigned EXCEPT !.newUri = UriObject(uriString, uriConfig)],
              uri  |-> "newUri"]
    ELSE [heap |-> h, uri |-> h[r].uri]

\* apply(route) on the route named by r
apply(r) ==
    LET u        == updateUri(heap, r)
        extra    == u.heap[r].extra
        assigned == [u.heap EXCEPT ![extra] =
                        ObjectAssign(u.heap[extra], registrarConfiguration.extra)]
    IN  /\ heap' = [assigned EXCEPT !.newRoute =
                       RouteObject(assigned[r].name, assigned[r].method, u.uri, extra)]
        /\ acall' = [op |-> "apply", route |-> r, result |-> "newRoute"]
        /\ UNCHANGED registrarConfiguration
        /\ UNCHANGED <<routerVars, binderVars>>

\* new ApplyConfiguration(config), and a route of the caller's
ApplyInit ==
    /\ registrarConfiguration \in [prefix : {"", "/p"}, uris : Mappings, extra : Mappings]
    /\ \E method \in Methods, url \in Urls, extra \in Mappings, uriConfig \in Mappings :
          heap = [route     |-> RouteObject("r1", method, "uri", "extra"),
                  uri       |-> UriObject(url, "uriConfig"),
                  extra     |-> extra,
                  uriConfig |-> uriConfig,
                  newRoute  |-> NoObject,
                  newUri    |-> NoObject]
    /\ acall = [op |-> "new", route |-> "route", result |-> Null]
    /\ RouterIdle
    /\ BinderIdle

ApplyNext == apply("route")

ApplySpec == ApplyInit /\ [][ApplyNext]_vars

(***************************************************************************)
(* Router claims                                                           *)
(***************************************************************************)
IsRegister == call.op = "register"
Succeeded  == call.result = "ok"
Failed     == call.result = "RegistrationError"

\* the url the route of the last register call is (or would be) held under
StoredUrl == prefixed(Route(call.name, call.method, call.url), routePrefix).url

SignatureOfRoute(rt) == routeSignature(rt.method, rt.url)

\* C1: routes and signatures correspond one to one: every route's method:url is a
\* key of signatures that maps to the route's name, and every key of signatures
\* maps to a name whose route has exactly that method:url.
C1_RoutesSignaturesOneToOne ==
    /\ \A n \in DOMAIN routes :
          /\ SignatureOfRoute(routes[n]) \in DOMAIN signatures
          /\ signatures[SignatureOfRoute(routes[n])] = n
    /\ \A s \in DOMAIN signatures :
          /\ signatures[s] \in DOMAIN routes
          /\ SignatureOfRoute(routes[signatures[s]]) = s

\* C2: with duplicates=false, a register call whose method and url are those of a
\* route held under a different name fails with RegistrationError.
C2_DuplicateRejected ==
    ( /\ IsRegister
      /\ config.duplicates = FALSE
      /\ \E n \in DOMAIN routes \ {call.name} :
            routes[n].method = call.method /\ routes[n].url = StoredUrl )
    => Failed

C2_Witness ==
    /\ IsRegister /\ Failed
    /\ config.duplicates = FALSE /\ config.immutable = FALSE
    /\ \E n \in DOMAIN routes \ {call.name} :
          routes[n].method = call.method /\ routes[n].url = StoredUrl

\* C3: with duplicates=false and immutable=false, registering name n with the
\* method and url whose signature n itself already owns does not fail.
C3_OwnSignatureAccepted ==
    ( /\ IsRegister
      /\ config.duplicates = FALSE /\ config.immutable = FALSE
      /\ call.name \in DOMAIN routes
      /\ routes[call.name].method = call.method
      /\ routes[call.name].url = StoredUrl
      /\ signatures[routeSignature(call.method, StoredUrl)] = call.name )
    => Succeeded

\* C4: with immutable=true, a register call whose name is already in routes fails
\* with RegistrationError whatever its method and url, and route(name) returns
\* afterwards what it returned before; no route, once held, is ever replaced.
C4_ImmutableNameRejected ==
    [][ config.immutable =>
          /\ (call'.op = "register" /\ call'.name \in DOMAIN routes)
                => (call'.result = "RegistrationError" /\ routes' = routes)
          /\ \A n \in DOMAIN routes :
                n \in DOMAIN routes' /\ routes'[n] = routes[n] ]_vars

\* a rejected re-registration whose signature differs from every registered one
C4_Witness ==
    /\ IsRegister /\ Failed
    /\ config.immutable
    /\ call.name \in DOMAIN routes
    /\ routeSignature(call.method, StoredUrl) \notin DOMAIN signatures
    /\ route(call.name).method # call.method

\* C5: a registration made while a prefix(p, ...) callback is executing stores the
\* url p followed by the given url; one made while none is executing stores the
\* given url.
C5_PrefixScope ==
    (IsRegister /\ Succeeded)
    => route(call.name).url =
          (IF Len(frames) > 0 THEN Top(frames) \o call.url ELSE call.url)

\* C6: with a prefix p scoped, the signature a registration of method m and url u
\* is compared under and stored under is m:(p+u), never m:u: it succeeds when
\* m:(p+u) is not registered (also when m:u is), and with duplicates=false it
\* fails when another route owns m:(p+u).
C6_PrefixBeforeDuplicateDetection ==
    [][ (call'.op = "register" /\ routePrefix # Null) =>
          LET n     == call'.name
              sig   == routeSignature(call'.method, routePrefix \o call'.url)
              plain == routeSignature(call'.method, call'.url)
          IN  /\ call'.result = "ok" =>
                    /\ sig \in DOMAIN signatures' /\ signatures'[sig] = n
                    /\ routes'[n].url = routePrefix \o call'.url
                    /\ plain \in DOMAIN signatures' <=> plain \in DOMAIN signatures
                    /\ plain \in DOMAIN signatures => signatures'[plain] = signatures[plain]
              /\ (sig \notin DOMAIN signatures /\ ~(config.immutable /\ n \in DOMAIN routes))
                    => call'.result = "ok"
              /\ (config.duplicates = FALSE /\ sig \in DOMAIN signatures /\ signatures[sig] # n)
                    => call'.result = "RegistrationError" ]_vars

\* a prefixed registration that succeeded although another route owns m:u
C6_Witness ==
    /\ IsRegister /\ Succeeded
    /\ routePrefix # Null
    /\ config.duplicates = FALSE
    /\ routeSignature(call.method, call.url) \in DOMAIN signatures
    /\ signatures[routeSignature(call.method, call.url)] # call.name
    /\ signatures[routeSignature(call.method, routePrefix \o call.url)] = call.name

(***************************************************************************)
(* Binder claims                                                           *)
(***************************************************************************)
IsBind       == bcall.op = "bind"
BoundList    == bcall.values.shape = "array"
BoundObject  == bcall.values.shape = "object"
ReturnedUrl  == bcall.result.kind = "url"
Threw(class) == bcall.result.kind = "throw" /\ bcall.result.error.class = class

\* the value the call supplied for the i-th parameter (list or object)
ValueFor(i) ==
    IF BoundList THEN At(bcall.values.items, i)
    ELSE Get(bcall.values.items, parameters[i].name)

ParameterNames == {parameters[i].name : i \in 1..Len(parameters)}

\* the entries of an object whose key is no parameter's name
Unmatched(object) == SelectSeq(object, LAMBDA e : e.k \notin ParameterNames)

\* "?k=v" for the first pair, "&k=v" for each later one, keys and values encoded
RECURSIVE QueryString(_, _)
QueryString(entries, first) ==
    IF entries = <<>> THEN <<>>
    ELSE (IF first THEN <<"?">> ELSE <<"&">>)
            \o encodeURIComponent(Head(entries).k) \o <<"=">>
            \o encodeURIComponent(StringOf(Head(entries).v))
            \o QueryString(Tail(entries), FALSE)

\* the url of the same call without GET-parameter binding
UrlWithoutQuery ==
    bindObject(uri, bcall.values.items,
               [effective(bcall.override) EXCEPT !.bindGetParameters = FALSE]).result.url

\* C7: binding an object with bindGetParameters=true appends every key not matched
\* to a placeholder, in enumeration order, as encoded key=value, the first pair
\* after "?" and each later pair after "&"; "/search" bound with
\* {q: "a b", page: 2} yields "/search?q=a%20b&page=2".
C7_QueryStringAppended ==
    (IsBind /\ BoundObject /\ effective(bcall.override).bindGetParameters /\ ReturnedUrl)
    => /\ bcall.result.url =
             UrlWithoutQuery \o QueryString(Unmatched(bcall.values.items), TRUE)
       /\ ( /\ uri = TplSearch
            /\ bcall.values.items =
                   <<Entry(q, Str(<<"a", " ", "b">>)), Entry(page, Num(<<"2">>))>> )
          => bcall.result.url =
                 <<"/","s","e","a","r","c","h","?","q","=","a","%","2","0","b",
                   "&","p","a","g","e","=","2">>

\* the conversion function raises no error of its own but TypeConversionError
ConversionHonoursContract == configuration.typeConversionFunction # "throwsRangeError"

MissingAt(i) == ValueFor(i) = Undefined

\* the string a supplied value is bound as
Rendered(value) ==
    IF value = Undefined THEN <<>>
    ELSE IF value.t = "string" THEN trim(value.s)
    ELSE applyConversion(configuration.typeConversionFunction, value).s

\* the template with every placeholder from the i-th on replaced
RECURSIVE Substituted(_, _)
Substituted(i, u) ==
    IF i > Len(parameters) THEN u
    ELSE Substituted(i + 1,
             replace(u, parameters[i].placeholder, encodeURIComponent(Rendered(ValueFor(i)))))

EndsWithSlash(s) == Len(s) > 0 /\ s[Len(s)] = "/"

\* C8: binding a list or an object: a required parameter whose value is undefined or
\* missing makes bind fail with UriParameterBindingError; an optional one is
\* replaced by the empty string and the trailing "/" characters that result are
\* removed; "/users/{id}/posts/{slug?}" bound with {id: 42} yields "/users/42/posts".
C8_MissingValues ==
    (IsBind /\ (BoundList \/ BoundObject) /\ ConversionHonoursContract)
    => /\ (\E i \in 1..Len(parameters) : parameters[i].required /\ MissingAt(i))
             => Threw("UriParameterBindingError")
       /\ (ReturnedUrl /\ \E i \in 1..Len(parameters) : MissingAt(i))
             => /\ \A i \in 1..Len(parameters) :
                      MissingAt(i) => ~Contains(bcall.result.url, parameters[i].placeholder)
                /\ ~EndsWithSlash(bcall.result.url)
                /\ (BoundList \/ ~effective(bcall.override).bindGetParameters)
                      => bcall.result.url = stripSlashes(Substituted(1, uri))
       /\ ( /\ uri = TplUsers
            /\ bcall.values = Object(<<Entry(id, Num(<<"4", "2">>))>>)
            /\ configuration.typeConversionFunction = "stringify" )
          => bcall.result.url =
                 <<"/","u","s","e","r","s","/","4","2","/","p","o","s","t","s">>

\* "/users/{id}/posts/{slug?}" bound with {id: 42}: the slash left by the missing
\* slug has been removed
C8_Witness ==
    /\ IsBind /\ ReturnedUrl
    /\ uri = TplUsers
    /\ bcall.values = Object(<<Entry(id, Num(<<"4", "2">>))>>)
    /\ bcall.result.url = <<"/","u","s","e","r","s","/","4","2","/","p","o","s","t","s">>

\* the conversion function returns null for the value of the first parameter
ConversionReturnsNull(value) ==
    /\ value # Undefined
    /\ value.t # "string"
    /\ applyConversion(configuration.typeConversionFunction, value).kind = "null"

\* C9: when the conversion function returns null for a non-string value, bind fails
\* with a UriParameterBindingError whose cause is the TypeConversionError raised by
\* convertToString and whose message names the parameter.
C9_ConversionErrorWrapped ==
    ( /\ IsBind /\ (BoundList \/ BoundObject)
      /\ Len(parameters) > 0
      /\ ConversionReturnsNull(ValueFor(1)) )
    => /\ Threw("UriParameterBindingError")
       /\ bcall.result.error.cause = "TypeConversionError"
       /\ bcall.result.error.parameter = parameters[1].name

\* C10: canBindObject returns true when binding the object succeeds, false exactly
\* when it raises UriParameterBindingError, and raises again any other error; no
\* UriParameterBindingError leaves it.
C10_CanBindObjectProbe ==
    bcall.op = "canBindObject"
    => LET b == bindOutcome(bcall.values, bcall.override).result
       IN  /\ b.kind = "url" => bcall.result = ReturnedBool(TRUE)
           /\ (b.kind = "throw" /\ b.error.class = "UriParameterBindingError")
                 => bcall.result = ReturnedBool(FALSE)
           /\ (b.kind = "throw" /\ b.error.class # "UriParameterBindingError")
                 => bcall.result = b
           /\ bcall.result = ReturnedBool(FALSE)
                 => (b.kind = "throw" /\ b.error.class = "UriParameterBindingError")
           /\ ~Threw("UriParameterBindingError")

\* an error of another class raised again by canBindObject
C10_Witness ==
    /\ bcall.op = "canBindObject"
    /\ Threw("RangeError")

\* C11: a bind call with an override configuration takes bindGetParameters and the
\* conversion function applied to non-string values from the override: a value the
\* override's function turns into null fails the call, one it turns into a
\* non-empty string binds, and unmatched keys are appended exactly when the
\* override says so.
C11_OverrideUsed ==
    (IsBind /\ bcall.override.given /\ (BoundList \/ BoundObject))
    => /\ ( /\ Len(parameters) > 0
            /\ ValueFor(1) # Undefined
            /\ ValueFor(1).t # "string" )
          => LET c == applyConversion(bcall.override.typeConversionFunction, ValueFor(1))
             IN  /\ c.kind = "null" => bcall.result.kind = "throw"
                 /\ ( /\ c.kind = "string" /\ trim(c.s) # <<>>
                      /\ \A i \in 2..Len(parameters) :
                            ~parameters[i].required /\ ValueFor(i) = Undefined )
                       => ReturnedUrl
       /\ (BoundObject /\ ReturnedUrl /\ Len(parameters) > 0)
          => /\ ~bcall.override.bindGetParameters => bcall.result.url = UrlWithoutQuery
             /\ (bcall.override.bindGetParameters /\ Unmatched(bcall.values.items) # <<>>)
                   => bcall.result.url # UrlWithoutQuery

\* the i-th element of the list handed to bind, undefined past its end
ListItem(i) ==
    IF i <= Len(bcall.values.items) THEN bcall.values.items[i] ELSE Undefined

\* the template with the i-th and later placeholders replaced by the list's elements
RECURSIVE PositionallyBound(_, _)
PositionallyBound(i, u) ==
    IF i > Len(parameters) THEN u
    ELSE PositionallyBound(i + 1,
             replace(u, parameters[i].placeholder, encodeURIComponent(Rendered(ListItem(i)))))

\* the value converts to a non-empty string
ConvertsToNonEmpty(value) ==
    /\ value # Undefined
    /\ value.t = "string" \/ applyConversion(configuration.typeConversionFunction, value).kind = "string"
    /\ Rendered(value) # <<>>

\* the conversion function of the call is the one the binder was constructed with
SameConversion ==
    effective(bcall.override).typeConversionFunction = configuration.typeConversionFunction

BoundScalar == bcall.values.shape = "scalar"

\* bind returned the template at once: nothing to bind
NothingToBind ==
    Len(parameters) = 0 /\ effective(bcall.override).bindGetParameters = FALSE

RequiredCount == Cardinality({i \in 1..Len(parameters) : parameters[i].required})

\* C13: binding a scalar fails with UriParameterBindingError whenever the template
\* has more than one required parameter, whatever the value and with nothing
\* substituted; with at most one required parameter the scalar is bound to the
\* first parameter of the template and to no other.
C13_ScalarBinding ==
    (IsBind /\ BoundScalar /\ ~NothingToBind)
    => /\ RequiredCount > 1
             => /\ Threw("UriParameterBindingError")
                /\ bcall.result.error.message = "plain value"
       /\ (RequiredCount <= 1 /\ Len(parameters) > 0)
             => /\ ReturnedUrl
                   => /\ bcall.result.url =
                            stripSlashes(replace(uri, parameters[1].placeholder,
                                encodeURIComponent(Rendered(bcall.values.value))))
                      /\ \A i \in 2..Len(parameters) :
                            Contains(bcall.result.url, parameters[i].placeholder)
                /\ (SameConversion /\ ConvertsToNonEmpty(bcall.values.value))
                   => ReturnedUrl
                /\ (bcall.values.value = Undefined /\ parameters[1].required)
                   => Threw("UriParameterBindingError")

\* a scalar bound to the first parameter of "/users/{id}/posts/{slug?}"
C13_Witness ==
    /\ IsBind /\ BoundScalar /\ ReturnedUrl
    /\ uri = TplUsers
    /\ bcall.values.value = Num(<<"4", "2">>)
    /\ bcall.result.url =
          <<"/","u","s","e","r","s","/","4","2","/","p","o","s","t","s","/",
            "{","s","l","u","g","?","}">>

\* C14: a register call that fails with RegistrationError leaves routes and
\* signatures exactly as they were, and a successful call leaves its entry in
\* both maps: the route under its name and the name under the route's signature.
C14_RegistrationAtomic ==
    [][ call'.op = "register" =>
          LET r == prefixed(Route(call'.name, call'.method, call'.url), routePrefix)
          IN  /\ call'.result = "RegistrationError"
                    => (routes' = routes /\ signatures' = signatures)
              /\ call'.result = "ok"
                    => /\ r.name \in DOMAIN routes'
                       /\ routes'[r.name] = r
                       /\ SignatureOfRoute(r) \in DOMAIN signatures'
                       /\ signatures'[SignatureOfRoute(r)] = r.name
                       /\ \A n \in DOMAIN routes \ {r.name} :
                             n \in DOMAIN routes' /\ routes'[n] = routes[n]
                       /\ \A s \in DOMAIN signatures \ {SignatureOfRoute(r)} :
                             s \in DOMAIN signatures' /\ signatures'[s] = signatures[s] ]_vars

\* a new name rejected for a signature that is taken, with both maps non-empty
C14_Witness ==
    /\ IsRegister /\ Failed
    /\ call.name \notin DOMAIN routes
    /\ routeSignature(call.method, StoredUrl) \in DOMAIN signatures
    /\ DOMAIN routes # {}

\* binding the i-th parameter from the object of the call fails
FailsAt(i) ==
    bindParameter(<<>>, parameters[i], Get(bcall.values.items, parameters[i].name),
                  effective(bcall.override)).kind = "throw"

\* the object of the call without the keys of the parameters before the i-th
WithoutBoundBefore(i) ==
    SelectSeq(bcall.values.items,
              LAMBDA e : e.k \notin {parameters[j].name : j \in 1..(i - 1)})

\* C16: object binding consumes the caller's object: after a successful bind the
\* object has no key that is a parameter name and keeps every other key with its
\* value; after a bind that fails at some parameter the keys of the parameters
\* bound before it are gone and the keys of the failing and later ones are kept.
C16_ObjectConsumed ==
    (IsBind /\ BoundObject)
    => /\ ReturnedUrl
             => /\ values.items = Unmatched(bcall.values.items)
                /\ \A i \in 1..Len(parameters) : ~HasKey(values.items, parameters[i].name)
       /\ bcall.result.kind = "throw"
             => \E i \in 1..Len(parameters) :
                   /\ FailsAt(i)
                   /\ \A j \in 1..(i - 1) : ~FailsAt(j)
                   /\ values.items = WithoutBoundBefore(i)
                   /\ \A j \in i..Len(parameters) :
                         HasKey(bcall.values.items, parameters[j].name)
                            => HasKey(values.items, parameters[j].name)

\* "/{id}/{q}" bound with {id: 42}: q is missing, id is already consumed
C16_Witness ==
    /\ IsBind /\ BoundObject /\ Threw("UriParameterBindingError")
    /\ uri = TplPair
    /\ bcall.values.items = <<Entry(id, Num(<<"4", "2">>))>>
    /\ values.items = <<>>

\* C19: canBindObject is a faithful probe: when canBindObject(object) returns true,
\* bind(object) on the same object immediately afterwards succeeds and returns the
\* url that bind(object) would have returned had canBindObject not been called.
C19_ProbeThenBind ==
    [][ ( /\ bcall.op = "canBindObject"
          /\ bcall.result = ReturnedBool(TRUE)
          /\ bcall'.op = "bind"
          /\ bcall'.override = bcall.override )
        => /\ bcall'.result.kind = "url"
           /\ bcall'.result = bindOutcome(bcall.values, bcall.override).result ]_vars

\* C20: every failure of bind is a UriParameterBindingError: for every template,
\* configuration and value shape, with a conversion function that returns a string
\* or null or throws TypeConversionError, bind returns a string or raises
\* UriParameterBindingError, never an error of another class.
C20_OnlyBindingErrors ==
    (IsBind /\ ConversionHonoursContract)
    => (ReturnedUrl \/ Threw("UriParameterBindingError"))

\* C18: routePrefix is null whenever no prefix callback is executing, also after a
\* prefix call whose callback raised an error, so that a registration made after
\* such a call is stored unprefixed.
C18_PrefixNullOutsideCallbacks ==
    /\ Len(frames) = 0 => routePrefix = Null
    /\ (Len(frames) = 0 /\ IsRegister /\ Succeeded)
          => (call.name \in DOMAIN routes /\ routes[call.name].url = call.url)

IsLookup == call.op = "hasRouteWithUrl"

\* some route held in routes has the url and a method among the given ones
HeldRouteMatches ==
    \E n \in DOMAIN routes :
        /\ routes[n].url = call.url
        /\ (call.method = Null \/ routes[n].method = call.method)

\* C15: after any sequence of registrations, hasRouteWithUrl(url, ...methods)
\* returns true if and only if some route currently held in routes has that url
\* and a method among the given methods (any known method when none is given).
C15_LookupMatchesRoutes ==
    IsLookup => (call.result = "true" <=> HeldRouteMatches)

(***************************************************************************)
(* ApplyConfiguration claims                                               *)
(***************************************************************************)
\* C17: apply does not mutate the route it is given: it returns a new Route, the
\* input route's extra mapping and the configuration object of the input route's
\* Uri have the same contents after the call as before, and a prefixed Uri is a
\* new Uri instance.
C17_ApplyDoesNotMutate ==
    [][ acall'.op = "apply" =>
          LET r == acall'.route
          IN  /\ acall'.result # r
              /\ heap'[r] = heap[r]
              /\ heap'[heap[r].uri].template = heap[heap[r].uri].template
              /\ heap'[heap[r].extra] = heap[heap[r].extra]
              /\ heap'[heap[heap[r].uri].configuration]
                    = heap[heap[heap[r].uri].configuration]
              /\ Len(registrarConfiguration.prefix) > 0
                    => heap'[acall'.result].uri # heap[r].uri ]_vars

====
